---- MODULE Spec2Model ----
(***************************************************************************)
(* Model of the legacy C calculator (legacy-code/main.c): the four         *)
(* arithmetic functions add, subtract, multiply, divide, and the           *)
(* interactive driver main().                                              *)
(*                                                                         *)
(* C doubles are modelled by a miniature binary floating-point format with *)
(* the structure of IEEE-754 binary64: signed zeros, subnormals, Prec bits *)
(* of significand, round-to-nearest-even, overflow to infinity, and NaN.   *)
(* A finite value is  (-1)^neg * n * 2^-FracBits  with n a representable   *)
(* magnitude.                                                              *)
(***************************************************************************)
EXTENDS Integers, Sequences, FiniteSets

(* ------------------------------------------------------------------ *)
(* Bounds of the miniature double format                               *)
(* ------------------------------------------------------------------ *)
Prec == 2
ExpRange == 2
FracBits == 3

Pow2(k) == 2 ^ k

MaxN == (Pow2(Prec) - 1) * Pow2(ExpRange)

Magnitudes == { m * Pow2(k) : m \in 0 .. (Pow2(Prec) - 1), k \in 0 .. ExpRange }

NaN == [k |-> "nan", neg |-> FALSE, n |-> 0]
Inf(neg) == [k |-> "inf", neg |-> neg, n |-> 0]
Fin(neg, n) == [k |-> "fin", neg |-> neg, n |-> n]
PZero == Fin(FALSE, 0)
NZero == Fin(TRUE, 0)
One == Fin(FALSE, Pow2(FracBits))
MinSub == Fin(FALSE, 1)

Finite == { Fin(s, n) : s \in BOOLEAN, n \in Magnitudes }
Doubles == Finite \cup { Inf(FALSE), Inf(TRUE), NaN }

(* An object whose value was never written (indeterminate value).       *)
Indet == [k |-> "indet", neg |-> FALSE, n |-> 0]

(* ------------------------------------------------------------------ *)
(* IEEE arithmetic on the format                                       *)
(* ------------------------------------------------------------------ *)
Abs(i) == IF i < 0 THEN -i ELSE i

Signed(x) == IF x.neg THEN -(x.n) ELSE x.n

(* num/den (in units of 2^-FracBits), rounded to the nearest            *)
(* representable magnitude, ties to even; -1 stands for overflow.       *)
RoundMag(num, den) ==
  IF num >= den * Pow2(Prec + ExpRange) THEN -1
  ELSE LET q == num \div den
           e == CHOOSE j \in 0 .. ExpRange :
                  /\ q < Pow2(Prec + j)
                  /\ (j = 0 \/ q >= Pow2(Prec + j - 1))
           u == Pow2(e) * den
           m == num \div u
           rem == num % u
           up == (2 * rem > u) \/ (2 * rem = u /\ m % 2 = 1)
           r == (IF up THEN m + 1 ELSE m) * Pow2(e)
       IN IF r > MaxN THEN -1 ELSE r

MkFin(neg, r) == IF r = -1 THEN Inf(neg) ELSE Fin(neg, r)

FNeg(x) == IF x.k = "nan" THEN x ELSE [x EXCEPT !.neg = ~x.neg]

FAdd(x, y) ==
  IF x.k = "nan" \/ y.k = "nan" THEN NaN
  ELSE IF x.k = "inf" /\ y.k = "inf" THEN (IF x.neg = y.neg THEN x ELSE NaN)
  ELSE IF x.k = "inf" THEN x
  ELSE IF y.k = "inf" THEN y
  ELSE LET s == Signed(x) + Signed(y)
       IN IF s = 0 THEN Fin(x.neg /\ y.neg, 0)
          ELSE MkFin(s < 0, RoundMag(Abs(s), 1))

FSub(x, y) == FAdd(x, FNeg(y))

FMul(x, y) ==
  IF x.k = "nan" \/ y.k = "nan" THEN NaN
  ELSE IF x.k = "inf" \/ y.k = "inf"
       THEN (IF (x.k = "fin" /\ x.n = 0) \/ (y.k = "fin" /\ y.n = 0)
             THEN NaN ELSE Inf(x.neg # y.neg))
  ELSE MkFin(x.neg # y.neg, RoundMag(x.n * y.n, Pow2(FracBits)))

FDiv(x, y) ==
  IF x.k = "nan" \/ y.k = "nan" THEN NaN
  ELSE IF x.k = "inf" THEN (IF y.k = "inf" THEN NaN ELSE Inf(x.neg # y.neg))
  ELSE IF y.k = "inf" THEN Fin(x.neg # y.neg, 0)
  ELSE IF y.n = 0 THEN (IF x.n = 0 THEN NaN ELSE Inf(x.neg # y.neg))
  ELSE MkFin(x.neg # y.neg, RoundMag(x.n * Pow2(FracBits), y.n))

(* The C operator == on doubles: NaN equals nothing, -0.0 equals 0.0.   *)
FEq(x, y) ==
  /\ x.k # "nan"
  /\ y.k # "nan"
  /\ \/ x = y
     \/ (x.k = "fin" /\ y.k = "fin" /\ x.n = 0 /\ y.n = 0)

(* ------------------------------------------------------------------ *)
(* printf("%.2f"): the exact binary value rounded to two decimals,      *)
(* ties to even; the sign is printed for every negative value, also    *)
(* for one that rounds to zero.                                        *)
(* ------------------------------------------------------------------ *)
NoNum == [sign |-> "", body |-> "", int |-> 0, frac |-> 0]

Fmt2(x) ==
  IF x.k = "nan" THEN [sign |-> "", body |-> "nan", int |-> 0, frac |-> 0]
  ELSE IF x.k = "inf"
       THEN [sign |-> IF x.neg THEN "-" ELSE "", body |-> "inf", int |-> 0, frac |-> 0]
  ELSE LET den == Pow2(FracBits)
           q == (100 * x.n) \div den
           rem == (100 * x.n) % den
           up == (2 * rem > den) \/ (2 * rem = den /\ q % 2 = 1)
           h == IF up THEN q + 1 ELSE q
       IN [sign |-> IF x.neg THEN "-" ELSE "", body |-> "digits",
           int |-> h \div 100, frac |-> h % 100]

(* ------------------------------------------------------------------ *)
(* CalculationResult and the four arithmetic functions                 *)
(* ------------------------------------------------------------------ *)
DIV_MSG == "Division by zero error"

CalculationResult(r, e, m) == [result |-> r, error_code |-> e, error_message |-> m]

(* Contents an uninitialised CalculationResult object may hold: zeroed  *)
(* memory, what an earlier failed or successful division left behind,   *)
(* or bytes that are no value the program ever writes.                  *)
GarbageFrames ==
  { CalculationResult(PZero, 0, ""),
    CalculationResult(PZero, 1, DIV_MSG),
    CalculationResult(NaN, -1, "?!") }

add(x, y) == FAdd(x, y)

(* Variant: the operands exchanged.                                     *)
subtract_swapped(x, y) == FSub(y, x)

subtract(x, y) == FSub(x, y)

multiply(x, y) == FMul(x, y)

(* Variant: the failure path leaves result unwritten.                   *)
divide_result_unset(x, y, calc_result) ==
  LET c0 == [calc_result EXCEPT !.error_code = 0]
  IN IF FEq(y, PZero)
     THEN [c0 EXCEPT !.error_code = 1, !.error_message = DIV_MSG]
     ELSE [c0 EXCEPT !.result = FDiv(x, y), !.error_message = ""]

(* Variant: a tolerance test, |y| <= smallest positive value, in place  *)
(* of the exact comparison.                                             *)
divide_tolerance(x, y, calc_result) ==
  LET c0 == [calc_result EXCEPT !.error_code = 0]
  IN IF y.k = "fin" /\ y.n <= MinSub.n
     THEN [c0 EXCEPT !.error_code = 1, !.error_message = DIV_MSG, !.result = PZero]
     ELSE [c0 EXCEPT !.result = FDiv(x, y), !.error_message = ""]

(* Variant: the success path leaves error_message unwritten.            *)
divide_message_unset(x, y, calc_result) ==
  LET c0 == [calc_result EXCEPT !.error_code = 0]
  IN IF FEq(y, PZero)
     THEN [c0 EXCEPT !.error_code = 1, !.error_message = DIV_MSG, !.result = PZero]
     ELSE [c0 EXCEPT !.result = FDiv(x, y)]

(* calc_result is the local's content on entry (never initialised).     *)
divide(x, y, calc_result) ==
  LET c0 == [calc_result EXCEPT !.error_code = 0]
  IN IF FEq(y, PZero)
     THEN [c0 EXCEPT !.error_code = 1, !.error_message = DIV_MSG, !.result = PZero]
     ELSE [c0 EXCEPT !.result = FDiv(x, y), !.error_message = ""]

(* ------------------------------------------------------------------ *)
(* State                                                               *)
(* ------------------------------------------------------------------ *)
VARIABLES
  pc,          \* position of main()
  num1, num2,  \* main's operands (Indet until a read stores a value)
  operation,   \* main's operator character (IndetCh until read)
  result,      \* main's CalculationResult
  stdin,       \* "open" or "eof"
  tty,         \* transcript: lines written to stdout and scanf calls, in order
  calls,       \* calls of add/subtract/multiply/divide made by main, in order
  exit_code,   \* <<>> while running, <<status>> once main returned
  a, b, op,    \* harness: the operation under test and its operands
  frame,       \* harness: content of the stack memory divide's local occupies
  ret,         \* harness: values returned by calls of op(a, b)
  phase        \* harness: 0 none, 1 op(a,b) called, 2 then a division by
               \* zero, 3 then op(a,b) called again

drv == <<pc, num1, num2, operation, result, stdin, tty, calls, exit_code>>
harness == <<a, b, op, frame, ret, phase>>
vars == <<pc, num1, num2, operation, result, stdin, tty, calls, exit_code,
          a, b, op, frame, ret, phase>>

Operators == {"+", "-", "*", "/"}
Chars == Operators \cup {"%", "x"}
IndetCh == "indet"

(* Bit patterns a double that was never written may hold: zeroed        *)
(* memory, a small leftover integer (a subnormal), a NaN pattern, a     *)
(* large negative value.                                                *)
IndetDoubles == { PZero, MinSub, NaN, Fin(TRUE, MaxN) }

(* The values a read of an object may yield: its value, or one of the   *)
(* indeterminate ones if it was never written.                          *)
ValuesOf(x) == IF x = Indet THEN IndetDoubles ELSE {x}
CharsOf(c) == IF c = IndetCh THEN Chars ELSE {c}

Out(text) == [kind |-> "out", text |-> text, num |-> NoNum, str |-> "", conv |-> 0]
OutNum(text, x) == [kind |-> "out", text |-> text, num |-> Fmt2(x), str |-> "", conv |-> 0]
OutStr(text, s) == [kind |-> "out", text |-> text, num |-> NoNum, str |-> s, conv |-> 0]
In(fmt, conv) == [kind |-> "in", text |-> fmt, num |-> NoNum, str |-> "", conv |-> conv]

Call(fn, x, y) == [fn |-> fn, x |-> x, y |-> y]

(* ------------------------------------------------------------------ *)
(* main(): one action per statement that writes, reads or returns      *)
(* ------------------------------------------------------------------ *)
IdleHarness ==
  /\ a = PZero /\ b = PZero /\ op = "none"
  /\ frame = CalculationResult(PZero, 0, "")
  /\ ret = {} /\ phase = 0

Init ==
  /\ pc = "banner"
  /\ num1 = Indet /\ num2 = Indet
  /\ operation = IndetCh
  /\ result \in GarbageFrames
  /\ stdin = "open"
  /\ tty = <<>>
  /\ calls = <<>>
  /\ exit_code = <<>>
  /\ IdleHarness

Printf(at, text, next) ==
  /\ pc = at
  /\ tty' = Append(tty, Out(text))
  /\ pc' = next
  /\ UNCHANGED <<num1, num2, operation, result, stdin, calls, exit_code>>
  /\ UNCHANGED harness

Banner == Printf("banner", "=== Legacy C Calculator ===", "prompt1")

PromptFirst == Printf("prompt1", "Enter first number: ", "read1")

(* Variant: the second prompt's text printed at the operator prompt.    *)
PromptOperator_wrong == Printf("prompt2", "Enter second number: ", "readop")

PromptOperator == Printf("prompt2", "Enter operation (+, -, *, /): ", "readop")

PromptSecond == Printf("prompt3", "Enter second number: ", "read2")

(* Numbers typed in the runs checked for termination: both zeros, the   *)
(* smallest and the largest finite value, one, minus one, an infinity   *)
(* and NaN.                                                             *)
Typed ==
  { PZero, NZero, MinSub, One, FNeg(One), Fin(FALSE, MaxN), Inf(FALSE), NaN }

TypedSet(few) == IF few THEN Typed ELSE Doubles

(* scanf with one conversion: it stores a value and returns 1, or       *)
(* stores nothing and returns 0 (input that does not match) or EOF      *)
(* (-1, end of input). After end of input every later scanf returns EOF.*)
ScanDouble(at, next, stored) ==
  /\ pc = at
  /\ pc' = next
  /\ \/ /\ stdin = "open"
        /\ stored # Indet
        /\ tty' = Append(tty, In("%lf", 1))
        /\ stdin' = stdin
     \/ /\ stdin = "open"
        /\ stored = Indet
        /\ tty' = Append(tty, In("%lf", 0))
        /\ stdin' = stdin
     \/ /\ stored = Indet
        /\ tty' = Append(tty, In("%lf", -1))
        /\ stdin' = "eof"

(* scanf("%lf", &num1); the number typed is any double, or one of      *)
(* Typed when few is set.                                               *)
ReadFirstFrom(few) ==
  /\ \E v \in TypedSet(few) \cup {Indet} :
       /\ ScanDouble("read1", "prompt2", v)
       /\ num1' = IF v = Indet THEN num1 ELSE v
  /\ UNCHANGED <<num2, operation, result, calls, exit_code>>
  /\ UNCHANGED harness

ReadFirst == ReadFirstFrom(FALSE)

(* " %c" skips white space and then matches any character: it fails     *)
(* only at end of input.                                                *)
ReadOperator ==
  /\ pc = "readop"
  /\ pc' = "prompt3"
  /\ \/ /\ stdin = "open"
        /\ \E c \in Chars : operation' = c
        /\ tty' = Append(tty, In(" %c", 1))
        /\ stdin' = stdin
     \/ /\ operation' = operation
        /\ tty' = Append(tty, In(" %c", -1))
        /\ stdin' = "eof"
  /\ UNCHANGED <<num1, num2, result, calls, exit_code>>
  /\ UNCHANGED harness

(* scanf("%lf", &num2); the number typed is any double, or one of      *)
(* Typed when few is set.                                               *)
ReadSecondFrom(few) ==
  /\ \E v \in TypedSet(few) \cup {Indet} :
       /\ ScanDouble("read2", "switch", v)
       /\ num2' = IF v = Indet THEN num2 ELSE v
  /\ UNCHANGED <<num1, operation, result, calls, exit_code>>
  /\ UNCHANGED harness

ReadSecond == ReadSecondFrom(FALSE)

(* The function of that name applied.                                   *)
Apply(fn, x, y) ==
  CASE fn = "add" -> add(x, y)
    [] fn = "subtract" -> subtract(x, y)
    [] fn = "multiply" -> multiply(x, y)

(* case '+', '-', '*': call, store, print, break.                       *)
Arith(ch, fn) ==
  /\ pc = "switch"
  /\ ch \in CharsOf(operation)
  /\ \E x \in ValuesOf(num1), y \in ValuesOf(num2) :
       /\ calls' = Append(calls, Call(fn, x, y))
       /\ result' = [result EXCEPT !.result = Apply(fn, x, y), !.error_code = 0]
       /\ tty' = Append(tty, OutNum("Result: ", Apply(fn, x, y)))
  /\ pc' = "return0"
  /\ UNCHANGED <<num1, num2, operation, stdin, exit_code>>
  /\ UNCHANGED harness

CaseAdd == Arith("+", "add")

(* Variant: subtract called with the operands exchanged.                *)
CaseSubtract_swapped ==
  /\ pc = "switch"
  /\ "-" \in CharsOf(operation)
  /\ \E x \in ValuesOf(num1), y \in ValuesOf(num2) :
       /\ calls' = Append(calls, Call("subtract", y, x))
       /\ result' = [result EXCEPT !.result = subtract(y, x), !.error_code = 0]
       /\ tty' = Append(tty, OutNum("Result: ", subtract(y, x)))
  /\ pc' = "return0"
  /\ UNCHANGED <<num1, num2, operation, stdin, exit_code>>
  /\ UNCHANGED harness

CaseSubtract == Arith("-", "subtract")

CaseMultiply == Arith("*", "multiply")

(* Variant: the failure branch breaks out of the switch (no return 1).  *)
CaseDivide_break ==
  /\ pc = "switch"
  /\ "/" \in CharsOf(operation)
  /\ \E x \in ValuesOf(num1), y \in ValuesOf(num2), g \in GarbageFrames :
       LET r == divide(x, y, g)
       IN /\ calls' = Append(calls, Call("divide", x, y))
          /\ result' = r
          /\ IF r.error_code = 0
             THEN tty' = Append(tty, OutNum("Result: ", r.result))
             ELSE tty' = Append(tty, OutStr("Error: ", r.error_message))
          /\ pc' = "return0"
          /\ exit_code' = exit_code
  /\ UNCHANGED <<num1, num2, operation, stdin>>
  /\ UNCHANGED harness

(* Variant: no zero test; a zero divisor ends the process at once,      *)
(* nothing printed.                                                     *)
CaseDivide_trap ==
  /\ pc = "switch"
  /\ "/" \in CharsOf(operation)
  /\ \E x \in ValuesOf(num1), y \in ValuesOf(num2) :
       /\ calls' = Append(calls, Call("divide", x, y))
       /\ IF FEq(y, PZero)
          THEN /\ result' = result
               /\ tty' = tty
               /\ pc' = "exit"
               /\ exit_code' = <<1>>
          ELSE /\ result' = CalculationResult(FDiv(x, y), 0, "")
               /\ tty' = Append(tty, OutNum("Result: ", FDiv(x, y)))
               /\ pc' = "return0"
               /\ exit_code' = exit_code
  /\ UNCHANGED <<num1, num2, operation, stdin>>
  /\ UNCHANGED harness

(* case '/': call divide, then print the result and break, or print the *)
(* error and return 1.                                                  *)
CaseDivide ==
  /\ pc = "switch"
  /\ "/" \in CharsOf(operation)
  /\ \E x \in ValuesOf(num1), y \in ValuesOf(num2), g \in GarbageFrames :
       LET r == divide(x, y, g)
       IN /\ calls' = Append(calls, Call("divide", x, y))
          /\ result' = r
          /\ IF r.error_code = 0
             THEN /\ tty' = Append(tty, OutNum("Result: ", r.result))
                  /\ pc' = "return0"
                  /\ exit_code' = exit_code
             ELSE /\ tty' = Append(tty, OutStr("Error: ", r.error_message))
                  /\ pc' = "exit"
                  /\ exit_code' = <<1>>
  /\ UNCHANGED <<num1, num2, operation, stdin>>
  /\ UNCHANGED harness

(* Variant: the default branch breaks out of the switch (no return 1).  *)
CaseDefault_break ==
  /\ pc = "switch"
  /\ CharsOf(operation) \ Operators # {}
  /\ tty' = Append(tty, Out("Invalid operation!"))
  /\ pc' = "return0"
  /\ exit_code' = exit_code
  /\ UNCHANGED <<num1, num2, operation, result, stdin, calls>>
  /\ UNCHANGED harness

CaseDefault ==
  /\ pc = "switch"
  /\ CharsOf(operation) \ Operators # {}
  /\ tty' = Append(tty, Out("Invalid operation!"))
  /\ pc' = "exit"
  /\ exit_code' = <<1>>
  /\ UNCHANGED <<num1, num2, operation, result, stdin, calls>>
  /\ UNCHANGED harness

ReturnZero ==
  /\ pc = "return0"
  /\ pc' = "exit"
  /\ exit_code' = <<0>>
  /\ UNCHANGED <<num1, num2, operation, result, stdin, tty, calls>>
  /\ UNCHANGED harness

Compute ==
  \/ Banner
  \/ PromptFirst
  \/ PromptOperator
  \/ PromptSecond
  \/ CaseAdd
  \/ CaseSubtract
  \/ CaseMultiply
  \/ CaseDivide
  \/ CaseDefault
  \/ ReturnZero

Next ==
  \/ Compute
  \/ ReadFirst
  \/ ReadOperator
  \/ ReadSecond

Spec == Init /\ [][Next]_vars

TypedNext ==
  \/ Compute
  \/ ReadFirstFrom(TRUE)
  \/ ReadOperator
  \/ ReadSecondFrom(TRUE)

(* A read blocks until input arrives, which may be never; every other   *)
(* statement of main() runs once control reaches it.                    *)
FairSpec == Init /\ [][TypedNext]_vars /\ WF_vars(Compute)

(* ------------------------------------------------------------------ *)
(* The four functions called directly: op(a, b) is the call under      *)
(* observation, drawn by OpsInit; any function may be called with the  *)
(* operands as given, swapped, or with a zero divisor, in any order.   *)
(* frame is the memory divide's local calc_result occupies: each call  *)
(* of divide finds there what the previous one left.                   *)
(* ------------------------------------------------------------------ *)
Functions == {"add", "subtract", "multiply", "divide"}

IdleDriver ==
  /\ pc = "lib"
  /\ num1 = Indet /\ num2 = Indet
  /\ operation = IndetCh
  /\ result = CalculationResult(PZero, 0, "")
  /\ stdin = "open"
  /\ tty = <<>>
  /\ calls = <<>>
  /\ exit_code = <<>>

OpsInit ==
  /\ IdleDriver
  /\ a \in Doubles
  /\ b \in Doubles
  /\ op \in Functions
  /\ frame \in GarbageFrames
  /\ ret = {}
  /\ phase = 0

ArgPairs == { <<a, b>>, <<b, a>>, <<a, PZero>>, <<a, NZero>> }

(* Bookkeeping of one call fn(x, y) that returned r; failed says that   *)
(* it was a division by zero.                                           *)
Observe(fn, x, y, r, failed) ==
  LET probe == (fn = op /\ x = a /\ y = b)
      p1 == IF probe /\ phase = 0 THEN 1
            ELSE IF probe /\ phase = 2 THEN 3
            ELSE IF failed /\ phase = 1 THEN 2
            ELSE phase
  IN /\ ret' = IF probe THEN ret \cup {r} ELSE ret
     /\ phase' = p1

CallArith(fn) ==
  /\ pc = "lib"
  /\ \E args \in ArgPairs :
       Observe(fn, args[1], args[2], Apply(fn, args[1], args[2]), FALSE)
  /\ UNCHANGED <<a, b, op, frame>>
  /\ UNCHANGED drv

CallAdd == CallArith("add")

CallSubtract == CallArith("subtract")

CallMultiply == CallArith("multiply")

CallDivide ==
  /\ pc = "lib"
  /\ \E args \in ArgPairs :
       LET r == divide(args[1], args[2], frame)
       IN /\ Observe("divide", args[1], args[2], r, r.error_code = 1)
          /\ frame' = r
  /\ UNCHANGED <<a, b, op>>
  /\ UNCHANGED drv

OpsNext ==
  \/ CallAdd
  \/ CallSubtract
  \/ CallMultiply
  \/ CallDivide

OpsSpec == OpsInit /\ [][OpsNext]_vars

(* ================================================================== *)
(* Properties                                                          *)
(* ================================================================== *)
Last(q) == q[Len(q)]

IsZero(x) == FEq(x, PZero)

(* All three scanf calls stored a value.                                *)
AllRead == num1 # Indet /\ operation # IndetCh /\ num2 # Indet

Dispatched == pc \in {"return0", "exit"}

OutcomeTexts == {"Result: ", "Error: ", "Invalid operation!"}

IsOutcome(l) == l.kind = "out" /\ l.text \in OutcomeTexts

OutcomeCount == Cardinality({ i \in 1 .. Len(tty) : IsOutcome(tty[i]) })

(* r is what IEEE-754 prescribes for the exact value num/den (in units  *)
(* of 2^-FracBits): no representable value is nearer, the sign is that  *)
(* of the exact value, and infinity only from the overflow threshold on.*)
CorrectlyRounded(r, num, den) ==
  IF r.k = "fin"
  THEN /\ \A c \in Finite :
            Abs(Signed(r) * den - num) <= Abs(Signed(c) * den - num)
       /\ (num # 0 => (r.n = 0 \/ r.neg = (num < 0)))
  ELSE /\ r.k = "inf"
       /\ r.neg = (num < 0)
       /\ 2 * Abs(num) >= den * (2 * MaxN + Pow2(ExpRange))

BothFinite == a.k = "fin" /\ b.k = "fin"

(* C1: divide(a, b) with b == 0.0 (either zero, any a, also infinite or *)
(* NaN) returns errorCode 1, result 0.0 and the message "Division by    *)
(* zero error"; the result is not the quotient a/b.                     *)
C1_DivideByZero ==
  (op = "divide" /\ IsZero(b)) =>
     \A r \in ret :
        /\ r.error_code = 1
        /\ r.result = PZero
        /\ r.error_message = DIV_MSG
        /\ r.result # FDiv(a, b)

C1_Witness ==
  /\ op = "divide" /\ b = NZero /\ a = One
  /\ ret # {}

(* C2: divide(a, b) with b != 0.0, also the smallest positive b,        *)
(* returns errorCode 0, an empty message and result a/b, the correctly  *)
(* rounded quotient.                                                    *)
C2_DivideNonZero ==
  (op = "divide" /\ ~IsZero(b)) =>
     \A r \in ret :
        /\ r = CalculationResult(FDiv(a, b), 0, "")
        /\ BothFinite =>
             CorrectlyRounded(r.result,
                              Signed(a) * Pow2(FracBits) * (IF b.neg THEN -1 ELSE 1),
                              b.n)

C2_Witness ==
  /\ op = "divide" /\ b = MinSub /\ a = One
  /\ ret = {CalculationResult(Inf(FALSE), 0, "")}

(* C8: add(a, b) = a + b, subtract(a, b) = a - b, multiply(a, b) =      *)
(* a * b in IEEE arithmetic (correctly rounded for finite operands),    *)
(* and the value returned is always a double: overflow yields an        *)
(* infinity, never an error.                                            *)
C8_Arithmetic ==
  \A r \in ret :
     /\ op = "add" =>
          /\ r = FAdd(a, b)
          /\ BothFinite => CorrectlyRounded(r, Signed(a) + Signed(b), 1)
     /\ op = "subtract" =>
          /\ r = FSub(a, b)
          /\ BothFinite => CorrectlyRounded(r, Signed(a) - Signed(b), 1)
     /\ op = "multiply" =>
          /\ r = FMul(a, b)
          /\ BothFinite => CorrectlyRounded(r, Signed(a) * Signed(b), Pow2(FracBits))
     /\ op # "divide" => r \in Doubles

C8_Witness ==
  /\ op = "subtract" /\ BothFinite /\ ~a.neg /\ ~b.neg /\ a.n < b.n
  /\ \E r \in ret : r.k = "fin" /\ r.neg /\ r.n > 0

(* C9: all calls of one function with the same operands return the     *)
(* same value (for divide the same result, errorCode and message),      *)
(* whatever was called in between, also a division by zero.             *)
C9_SameInputsSameResult == Cardinality(ret) <= 1

C9_Witness ==
  /\ op = "divide" /\ ~IsZero(b) /\ BothFinite
  /\ phase = 3
  /\ frame.error_code = 0
  /\ ret # {}

(* The data-model invariant of one CalculationResult value.             *)
WellFormed(r) ==
  /\ r.error_code \in {0, 1}
  /\ r.error_code = 1 => (r.result = PZero /\ r.error_message # "")
  /\ r.error_code = 0 => r.error_message = ""

(* C3: every CalculationResult satisfies the data-model invariant: the  *)
(* value divide returns, and the one main holds after dispatching any   *)
(* of +, -, *, /.                                                       *)
C3_ResultInvariant ==
  (Dispatched /\ calls # <<>>) => WellFormed(result)

(* The part of C3 about divide alone: what divide returns is well       *)
(* formed for every pair of operands (checked under OpsSpec).           *)
C3_DivideReturnsWellFormed ==
  op = "divide" => \A r \in ret : WellFormed(r)

(* C4: when all three inputs were read, main returns 1 exactly if the   *)
(* operator is '/' with a second operand equal to zero or is none of    *)
(* + - * /, and 0 otherwise; 0 only after a "Result:" line, 1 only      *)
(* after "Error: Division by zero error" or "Invalid operation!".       *)
C4_ExitStatus ==
  (pc = "exit" /\ AllRead) =>
     LET bad == (operation = "/" /\ IsZero(num2)) \/ operation \notin Operators
     IN /\ exit_code = IF bad THEN <<1>> ELSE <<0>>
        /\ exit_code = <<0>> => Last(tty).text = "Result: "
        /\ exit_code = <<1>> =>
             \/ Last(tty) = OutStr("Error: ", DIV_MSG)
             \/ Last(tty) = Out("Invalid operation!")

C4_Witness ==
  /\ pc = "exit" /\ AllRead
  /\ operation = "/" /\ num2 = NZero
  /\ exit_code = <<1>>

(* C5: with all three inputs read, main calls the function matching the *)
(* operator with the operands in the order read, and the line printed   *)
(* is "Result: " with first+second, first-second, first*second, or      *)
(* first/second for a non-zero second operand, formatted by %.2f.       *)
C5_Dispatch ==
  (Dispatched /\ AllRead) =>
     /\ operation = "+" =>
          /\ calls = <<Call("add", num1, num2)>>
          /\ Last(tty) = OutNum("Result: ", FAdd(num1, num2))
     /\ operation = "-" =>
          /\ calls = <<Call("subtract", num1, num2)>>
          /\ Last(tty) = OutNum("Result: ", FSub(num1, num2))
     /\ operation = "*" =>
          /\ calls = <<Call("multiply", num1, num2)>>
          /\ Last(tty) = OutNum("Result: ", FMul(num1, num2))
     /\ operation = "/" =>
          /\ calls = <<Call("divide", num1, num2)>>
          /\ ~IsZero(num2) => Last(tty) = OutNum("Result: ", FDiv(num1, num2))

C5_Witness ==
  /\ Dispatched /\ AllRead
  /\ operation = "-"
  /\ num1 = One /\ num2 = Fin(FALSE, 3 * Pow2(FracBits - 1))
  /\ Last(tty).num = [sign |-> "-", body |-> "digits", int |-> 0, frac |-> 50]

(* C6: when the operator read is none of + - * /, main calls none of    *)
(* the four functions, prints "Invalid operation!" and no "Result:" or  *)
(* "Error:" line, and returns 1, whatever the operands are.             *)
C6_InvalidOperator ==
  (Dispatched /\ operation # IndetCh /\ operation \notin Operators) =>
     /\ calls = <<>>
     /\ pc = "exit"
     /\ exit_code = <<1>>
     /\ Last(tty) = Out("Invalid operation!")
     /\ \A i \in 1 .. Len(tty) : tty[i].text \notin {"Result: ", "Error: "}

C6_Witness ==
  /\ pc = "exit"
  /\ operation = "%"
  /\ num1 # Indet /\ num2 = PZero
  /\ exit_code = <<1>>

(* The fixed order of main's first seven steps.                         *)
Order ==
  << "=== Legacy C Calculator ===",
     "Enter first number: ", "%lf",
     "Enter operation (+, -, *, /): ", " %c",
     "Enter second number: ", "%lf" >>

StepKinds == << "out", "out", "in", "out", "in", "out", "in" >>

(* C7: main's steps happen in one fixed order, none repeated or         *)
(* skipped: banner, first prompt, first read, operator prompt, operator *)
(* read, second prompt, second read, then the dispatch; no function is  *)
(* called and no outcome line printed before the three reads, and       *)
(* nothing is read or prompted after the dispatch.                      *)
C7_FixedOrder ==
  /\ Len(tty) <= Len(Order) + 1
  /\ \A i \in 1 .. Len(tty) :
        IF i <= Len(Order)
        THEN tty[i].text = Order[i] /\ tty[i].kind = StepKinds[i]
        ELSE IsOutcome(tty[i])
  /\ Len(calls) <= 1
  /\ calls # <<>> => Len(tty) = Len(Order) + 1
  /\ Dispatched <=> Len(tty) = Len(Order) + 1
  /\ pc = "switch" <=> Len(tty) = Len(Order)

C7_Witness ==
  /\ pc = "exit"
  /\ Len(tty) = Len(Order) + 1
  /\ calls # <<>>
  /\ AllRead

(* C10: once the three reads have completed main reaches its end, and   *)
(* at the end exactly one outcome line has been printed; a division by  *)
(* zero does not end the run early: the end is reached with the error   *)
(* line printed and status 1.                                           *)
C10_Terminates ==
  /\ (pc = "switch" /\ AllRead) ~> (pc = "exit")
  /\ []((pc = "exit" /\ AllRead) => (OutcomeCount = 1 /\ Len(exit_code) = 1))
  /\ []((pc = "exit" /\ AllRead /\ operation = "/" /\ IsZero(num2)) =>
          (Last(tty) = OutStr("Error: ", DIV_MSG) /\ exit_code = <<1>>))

C10_Witness ==
  /\ pc = "exit" /\ AllRead
  /\ operation = "/" /\ num2 = PZero /\ num1 = One
  /\ OutcomeCount = 1

====
